---------------------------- MODULE Spec2Model ----------------------------
(***************************************************************************)
(* A model of src/index.ts of tinytemplatec: the tag tree builder (parse), *)
(* the static analyzer (detectStaticNodes), the code generator             *)
(* (compileNode, compileProps, parseInterpolations), the restricted        *)
(* evaluator (saferEval) and the facade (compile).                         *)
(*                                                                         *)
(* Text is a sequence of one-character strings, so that trimming,          *)
(* searching and replacing are computed and not assumed.  The template is  *)
(* a sequence of tokens: what regex.anyTag and regex.openingTag make of    *)
(* the text (a run of text, an opening tag, a closing tag).  Objects with  *)
(* identity (virtual nodes, scope objects, proxies) are numbered.          *)
(***************************************************************************)
EXTENDS Integers, Sequences, FiniteSets, TLC

VARIABLES
    pc,             \* where the operation under study stands
    template,       \* parse: the argument html as it was passed
    html,           \* parse: the text not consumed yet
    stack,          \* parse: the stack of node ids
    closed,         \* parse: the set of closed node ids
    nodes,          \* the virtual nodes, by id
    result,         \* parse: the returned forest (node ids)
    root,           \* detectStaticNodes / compileNode: the node passed
    options,        \* CompilerOptions, with the values Math.random yields
    out,            \* detectStaticNodes / compileNode / compileProps: the outcome
    heap,           \* saferEval: the scope objects, by id
    sandboxProxies, \* saferEval: the WeakMap from scope object to proxy
    evaluators,     \* saferEval: the evalWrapper closures made so far
    renders,        \* compile: the renderTemplate closures made so far
    calls           \* saferEval: one record per evalWrapper call

vars == <<pc, template, html, stack, closed, nodes, result, root, options, out,
          heap, sandboxProxies, evaluators, renders, calls>>

parseVars == <<template, html, stack, closed, result>>
genVars == <<root, options, out>>
evalVars == <<heap, sandboxProxies, evaluators, renders, calls>>

-----------------------------------------------------------------------------
(* Bounds of the model.                                                    *)

MaxTokens == 4
MaxNodes == 2
MaxAttrs == 2
MaxProps == 3
MaxCalls == 2
MaxEvaluators == 2

-----------------------------------------------------------------------------
(* Small helpers on sequences.                                             *)

RECURSIVE Concat(_)
Concat(ss) == IF ss = <<>> THEN "" ELSE Head(ss) \o Concat(Tail(ss))

RECURSIVE Join(_, _)
Join(ss, sep) ==
    IF ss = <<>> THEN ""
    ELSE IF Len(ss) = 1 THEN ss[1]
    ELSE ss[1] \o sep \o Join(Tail(ss), sep)

RECURSIVE SeqsUpTo(_, _)
SeqsUpTo(S, n) ==
    IF n = 0 THEN {<<>>}
    ELSE LET shorter == SeqsUpTo(S, n - 1)
         IN  shorter \cup {Append(s, x) : s \in {t \in shorter : Len(t) = n - 1}, x \in S}

\* String.prototype.trim on a sequence of characters
RECURSIVE TrimLeft(_)
TrimLeft(s) == IF s # <<>> /\ Head(s) = " " THEN TrimLeft(Tail(s)) ELSE s

RECURSIVE TrimRight(_)
TrimRight(s) ==
    IF s # <<>> /\ s[Len(s)] = " " THEN TrimRight(SubSeq(s, 1, Len(s) - 1)) ELSE s

Trim(s) == TrimRight(TrimLeft(s))

-----------------------------------------------------------------------------
(* Values, props and virtual nodes.                                        *)

StrVal(s) == [t |-> "string", v |-> s]
TrueVal == [t |-> "boolean", v |-> "true"]

\* A prop key is a sequence of pieces, e.g. <<":", "id">> for :id
KeyStr(k) == Concat(k)

\* props[key] = value on an object that keeps its keys in insertion order
SetProp(props, k, v) ==
    IF \E i \in DOMAIN props : props[i].key = k
    THEN [i \in DOMAIN props |-> IF props[i].key = k THEN [key |-> k, value |-> v] ELSE props[i]]
    ELSE Append(props, [key |-> k, value |-> v])

RECURSIVE ParsePropsFrom(_, _)
ParsePropsFrom(pairs, props) ==
    IF pairs = <<>> THEN props
    ELSE ParsePropsFrom(Tail(pairs),
            SetProp(props, Head(pairs).key,
                    IF Head(pairs).value # "" THEN StrVal(Head(pairs).value) ELSE TrueVal))

\* parseProps over the matches of regex.attributes: pair[2] || true
parseProps(pairs) == ParsePropsFrom(pairs, <<>>)

Unset == <<>>

\* the node h(type, props, text) builds at compile time (interface VNode)
H(type, props, text) ==
    [type |-> type, props |-> props, children |-> <<>>, nodeValue |-> text, static |-> Unset]

\* a slip: only the first of the popped nodes is appended
AppendFirstOnly(vn, content) ==
    [vn EXCEPT !.children = @ \o (IF content = <<>> THEN <<>> ELSE <<Head(content)>>)]

\* content.forEach(container.append.bind(container)): VNode.append, one child each
AppendChildren(vn, content) == [vn EXCEPT !.children = @ \o content]

-----------------------------------------------------------------------------
(* parse                                                                   *)

TagNames == {"a", "b"}
TextRuns == {<<" ">>, <<" ", "x", " ">>}

TextTok(t) == [kind |-> "text", name |-> "", selfClosing |-> FALSE, attrs |-> <<>>, text |-> t]
OpenTok(n, sc) == [kind |-> "open", name |-> n, selfClosing |-> sc, attrs |-> <<>>, text |-> <<>>]
CloseTok(n) == [kind |-> "close", name |-> n, selfClosing |-> FALSE, attrs |-> <<>>, text |-> <<>>]

Tokens ==
    {TextTok(t) : t \in TextRuns}
      \cup {OpenTok(n, sc) : n \in TagNames, sc \in BOOLEAN}
      \cup {CloseTok(n) : n \in TagNames}

\* text between two tags is one run: no two text tokens are adjacent
Templates ==
    {s \in SeqsUpTo(Tokens, MaxTokens) :
        \A i \in 1..(Len(s) - 1) : ~(s[i].kind = "text" /\ s[i + 1].kind = "text")}

\* regex.anyTag.exec(html): the place of the first tag, 0 when there is none
NextTagIndex(h) ==
    IF \E i \in DOMAIN h : h[i].kind # "text"
    THEN CHOOSE i \in DOMAIN h : h[i].kind # "text" /\ \A j \in 1..(i - 1) : h[j].kind = "text"
    ELSE 0

RECURSIVE TextOf(_)
TextOf(toks) == IF toks = <<>> THEN <<>> ELSE Head(toks).text \o TextOf(Tail(toks))

\* lines 73-77: the text before the next tag, trimmed, pushed when not empty
PushText(st, ns, h) ==
    LET i == NextTagIndex(h)
        before == SubSeq(h, 1, IF i = 0 THEN Len(h) ELSE i - 1)
        textContent == Trim(TextOf(before))
    IN  IF i # 1 /\ textContent # <<>>
        THEN [stack |-> Append(st, Len(ns) + 1), nodes |-> Append(ns, H("#text", <<>>, textContent))]
        ELSE [stack |-> st, nodes |-> ns]

\* a slip: closed.has(cur) is left out of the loop condition
RECURSIVE PopUntilAnyOfType(_, _, _, _, _)
PopUntilAnyOfType(st, ns, cl, name, content) ==
    IF st # <<>> /\ ns[st[Len(st)]].type # name
    THEN PopUntilAnyOfType(SubSeq(st, 1, Len(st) - 1), ns, cl, name, <<st[Len(st)]>> \o content)
    ELSE [stack |-> st, content |-> content]

\* a slip: a closing tag closes the nearest unclosed element, whatever its type
RECURSIVE PopUntilUnclosed(_, _, _, _, _)
PopUntilUnclosed(st, ns, cl, name, content) ==
    IF st # <<>> /\ (ns[st[Len(st)]].type = "#text" \/ st[Len(st)] \in cl)
    THEN PopUntilUnclosed(SubSeq(st, 1, Len(st) - 1), ns, cl, name, <<st[Len(st)]>> \o content)
    ELSE [stack |-> st, content |-> content]

\* lines 92-96: pop while the top is of another type or closed
RECURSIVE PopUntil(_, _, _, _, _)
PopUntil(st, ns, cl, name, content) ==
    IF st # <<>> /\ (ns[st[Len(st)]].type # name \/ st[Len(st)] \in cl)
    THEN PopUntil(SubSeq(st, 1, Len(st) - 1), ns, cl, name, <<st[Len(st)]>> \o content)
    ELSE [stack |-> st, content |-> content]

ParseIdle ==
    /\ template = <<>> /\ html = <<>> /\ stack = <<>> /\ closed = {} /\ result = <<>>

GenIdle == root = 0 /\ options = <<>> /\ out = <<>>

EvalIdle ==
    /\ heap = <<>> /\ sandboxProxies = <<>> /\ evaluators = <<>>
    /\ renders = <<>> /\ calls = <<>>

InitParse ==
    /\ pc = "loop"
    /\ template \in Templates
    /\ html = template
    /\ stack = <<>>
    /\ closed = {}
    /\ nodes = <<>>
    /\ result = <<>>
    /\ GenIdle /\ EvalIdle

\* where the loop stands: the kind of the next tag (lines 71-82)
NextTok == html[NextTagIndex(html)]
AtTag(kind) ==
    pc = "loop" /\ html # <<>> /\ NextTagIndex(html) # 0 /\ NextTok.kind = kind
AtCloseTag == AtTag("close")

\* lines 90-98: what the pop loop leaves when run for the closing tag at hand
Popped == LET t == PushText(stack, nodes, html)
          IN  PopUntil(t.stack, t.nodes, closed, NextTok.name, <<>>)

\* line 99: container is defined
ContainerFound == Popped.stack # <<>>

\* one turn of the loop on an opening tag (lines 72-88, 104)
OpenTag ==
    /\ AtTag("open")
    /\ LET i == NextTagIndex(html)
           tok == html[i]
           t == PushText(stack, nodes, html)
           id == Len(t.nodes) + 1
           vn == H(tok.name, IF tok.attrs # <<>> THEN parseProps(tok.attrs) ELSE <<>>, <<>>)
       IN  /\ nodes' = Append(t.nodes, vn)
           /\ closed' = IF tok.selfClosing THEN closed \cup {id} ELSE closed
           /\ stack' = Append(t.stack, id)
           /\ html' = SubSeq(html, i + 1, Len(html))
    /\ UNCHANGED <<pc, template, result, genVars, evalVars>>

\* one turn of the loop on a closing tag that finds its container (lines 90-104)
CloseTag ==
    /\ AtCloseTag
    /\ ContainerFound
    /\ LET i == NextTagIndex(html)
           t == PushText(stack, nodes, html)
           p == Popped
       IN  /\ LET container == p.stack[Len(p.stack)]
              IN  /\ nodes' = [t.nodes EXCEPT ![container] = AppendChildren(@, p.content)]
                  /\ closed' = closed \cup {container}
           /\ stack' = p.stack
           /\ html' = SubSeq(html, i + 1, Len(html))
    /\ UNCHANGED <<pc, template, result, genVars, evalVars>>

\* a closing tag with no container: line 99 throws
CloseTagThrow ==
    /\ AtCloseTag
    /\ ~ContainerFound
    /\ nodes' = PushText(stack, nodes, html).nodes
    /\ stack' = Popped.stack
    /\ pc' = "thrown"
    /\ UNCHANGED <<template, html, closed, result, genVars, evalVars>>

\* no tag is left: the trailing text, break, return (lines 73-79, 106)
TrailingText ==
    /\ pc = "loop" /\ html # <<>>
    /\ NextTagIndex(html) = 0
    /\ LET t == PushText(stack, nodes, html)
       IN  /\ nodes' = t.nodes
           /\ stack' = t.stack
           /\ result' = t.stack
    /\ pc' = "returned"
    /\ UNCHANGED <<template, html, closed, genVars, evalVars>>

\* html is empty: the loop ends and the stack is returned (lines 71, 106)
ReturnStack ==
    /\ pc = "loop" /\ html = <<>>
    /\ result' = stack
    /\ pc' = "returned"
    /\ UNCHANGED <<template, html, stack, closed, nodes, genVars, evalVars>>

NextParse == OpenTag \/ CloseTag \/ CloseTagThrow \/ TrailingText \/ ReturnStack

SpecParse == InitParse /\ [][NextParse]_vars

-----------------------------------------------------------------------------
(* Properties of parse.                                                    *)

\* the stack holds an unclosed node of the given type
HoldsUnclosed(st, name) ==
    \E i \in DOMAIN st : nodes[st[i]].type = name /\ st[i] \notin closed

\* what parse does on a tag stream as far as throwing goes, told from the tags
\* alone; open: the names of the elements opened and not closed yet, innermost
\* last; a closing tag closes the innermost of its name and drops those above it
RECURSIVE RunsIntoUnmatchedClose(_, _)
RunsIntoUnmatchedClose(toks, open) ==
    IF toks = <<>> THEN FALSE
    ELSE LET t == Head(toks)
             hits == {i \in DOMAIN open : open[i] = t.name}
         IN  CASE t.kind = "text" -> RunsIntoUnmatchedClose(Tail(toks), open)
               [] t.kind = "open" ->
                    RunsIntoUnmatchedClose(Tail(toks),
                        IF t.selfClosing THEN open ELSE Append(open, t.name))
               [] OTHER ->
                    \/ hits = {}
                    \/ RunsIntoUnmatchedClose(Tail(toks),
                          SubSeq(open, 1, (CHOOSE i \in hits : \A j \in hits : j <= i) - 1))

\* C1: where parse meets a closing tag, line 99 throws exactly when the stack
\* holds no unclosed node of the tag's type; parse has thrown only at such a
\* tag and then no forest is returned; parse ends having returned the stack
\* exactly for the streams in which every closing tag finds such a node
C1_ThrowIffNoUnclosedMatch ==
    /\ AtCloseTag => (ContainerFound <=> HoldsUnclosed(stack, NextTok.name))
    /\ pc = "thrown" =>
          /\ html # <<>> /\ NextTagIndex(html) # 0 /\ NextTok.kind = "close"
          /\ result = <<>>
          /\ RunsIntoUnmatchedClose(template, <<>>)
    /\ pc = "returned" => result = stack /\ ~RunsIntoUnmatchedClose(template, <<>>)

\* C1 witness: parse threw on a closing tag although a node of that type, already
\* closed, had been pushed before
C1_ThrownPastClosedNode ==
    /\ pc = "thrown"
    /\ \E i \in DOMAIN nodes : i \in closed /\ nodes[i].type = NextTok.name

\* the tag stream is well formed: every opening tag that is not self-closing has
\* its own closing tag, properly nested (open: the names opened and not closed yet)
RECURSIVE WellFormed(_, _)
WellFormed(toks, open) ==
    IF toks = <<>> THEN open = <<>>
    ELSE LET t == Head(toks)
         IN  CASE t.kind = "text" -> WellFormed(Tail(toks), open)
               [] t.kind = "open" ->
                    WellFormed(Tail(toks), IF t.selfClosing THEN open ELSE Append(open, t.name))
               [] OTHER ->
                    /\ open # <<>>
                    /\ open[Len(open)] = t.name
                    /\ WellFormed(Tail(toks), SubSeq(open, 1, Len(open) - 1))

CountTokens(toks, P(_)) == Cardinality({i \in DOMAIN toks : P(toks[i])})
IsPairClose(t) == t.kind = "close"
IsSelfClosing(t) == t.kind = "open" /\ t.selfClosing
IsNonEmptyText(t) == t.kind = "text" /\ Trim(t.text) # <<>>

\* the nodes of a forest, roots and descendants, each as often as it occurs
RECURSIVE ForestSize(_)
ForestSize(ids) ==
    IF ids = <<>> THEN 0
    ELSE 1 + ForestSize(nodes[Head(ids)].children) + ForestSize(Tail(ids))

Occurrences(id) ==
    Cardinality({i \in DOMAIN result : result[i] = id})
      + Cardinality({pr \in (DOMAIN nodes) \X (1..Len(nodes)) :
                        /\ pr[2] \in DOMAIN nodes[pr[1]].children
                        /\ nodes[pr[1]].children[pr[2]] = id})

\* C5: for a well-formed tag stream the forest parse returns has as many nodes as
\* there are open/close pairs, self-closing tags and non-empty text runs, and
\* every node built is in it exactly once (as one root or as one child)
C5_NodeCount ==
    pc = "returned" /\ WellFormed(template, <<>>) =>
        /\ ForestSize(result) = CountTokens(template, IsPairClose)
                                  + CountTokens(template, IsSelfClosing)
                                  + CountTokens(template, IsNonEmptyText)
        /\ Len(nodes) = ForestSize(result)
        /\ \A id \in DOMAIN nodes : Occurrences(id) = 1

\* C5 witness: a well-formed stream with a pair, nested content and text was parsed
C5_NestedParsed ==
    /\ pc = "returned" /\ WellFormed(template, <<>>)
    /\ \E id \in DOMAIN nodes : Len(nodes[id].children) >= 2
    /\ CountTokens(template, IsNonEmptyText) >= 1
    /\ CountTokens(template, IsSelfClosing) >= 1

\* what the closing-tag step sees: the stack with the text before the tag on it
StackAtTag == PushText(stack, nodes, html).stack
Attached(i) == AtCloseTag /\ pc' = "loop" /\ i \in DOMAIN StackAtTag /\ i > Len(stack')
ParentAfter(id) ==
    {p \in DOMAIN nodes' : \E k \in DOMAIN nodes'[p].children : nodes'[p].children[k] = id}
IsUnclosedElement(id) == id \in DOMAIN nodes /\ nodes[id].type # "#text" /\ id \notin closed
Below(i, Q(_)) == {j \in 1..(i - 1) : Q(StackAtTag[j])}
Nearest(S) == CHOOSE j \in S : \A k \in S : k <= j

\* C9 as stated: every node attached on a closing tag gets as its parent the
\* closest unclosed element below it on the stack
C9_ParentIsNearestUnclosed ==
    [][\A i \in DOMAIN StackAtTag : Attached(i) =>
          /\ Below(i, IsUnclosedElement) # {}
          /\ ParentAfter(StackAtTag[i]) = {StackAtTag[Nearest(Below(i, IsUnclosedElement))]}]_vars

IsUnclosedOfTagType(id) ==
    id \in DOMAIN nodes /\ nodes[id].type = NextTok.name /\ id \notin closed

\* C9 amended: every node attached on a closing tag gets as its parent the
\* closest unclosed node below it on the stack whose type is the closing tag's
\* name; all nodes above that node are attached to it, in stack order
C9_ParentIsNearestUnclosedOfType ==
    [][AtCloseTag /\ pc' = "loop" =>
          /\ stack' # <<>>
          /\ Len(stack') <= Len(StackAtTag)
          /\ stack' = SubSeq(StackAtTag, 1, Len(stack'))
          /\ nodes'[stack'[Len(stack')]].children
               = nodes[stack'[Len(stack')]].children
                   \o SubSeq(StackAtTag, Len(stack') + 1, Len(StackAtTag))
          /\ \A i \in DOMAIN StackAtTag : Attached(i) =>
               /\ Below(i, IsUnclosedOfTagType) # {}
               /\ ParentAfter(StackAtTag[i])
                    = {StackAtTag[Nearest(Below(i, IsUnclosedOfTagType))]}]_vars

\* C9 witness: a node was attached to a container across an element that was
\* never closed (an earlier sibling of it is an unclosed element)
C9_AttachedAcrossUnclosed ==
    \E p \in DOMAIN nodes : \E k \in DOMAIN nodes[p].children :
        /\ k < Len(nodes[p].children)
        /\ nodes[nodes[p].children[k]].type # "#text"
        /\ nodes[p].children[k] \notin closed

-----------------------------------------------------------------------------
(* CompilerOptions and the trees the generator is given.                   *)

\* options.interpolationRegex, here /\{(\w)\}/g: the place (from 0) of the first
\* marker {e} in the text, -1 when there is none (String.prototype.search)
IsMarkerAt(s, i) ==
    /\ i + 2 <= Len(s)
    /\ s[i] = "{" /\ s[i + 2] = "}"
    /\ s[i + 1] \notin {"{", "}", " "}

search(s) ==
    IF \E i \in DOMAIN s : IsMarkerAt(s, i)
    THEN (CHOOSE i \in DOMAIN s : IsMarkerAt(s, i) /\ \A j \in 1..(i - 1) : ~IsMarkerAt(s, j)) - 1
    ELSE -1

\* options.dataBindingRegex, here /^:(.+)$/: <<>> for no match, else the captured name
dataBindingExec(k) ==
    IF Len(k) >= 2 /\ k[1] = ":" THEN <<Concat(Tail(k))>> ELSE <<>>

\* what a directive handler does with its continuation renderRest
DirectiveNames == {"if", "for"}
HandlerKinds == {"wrap", "drop"}
DirectiveConfigs == {<<>>} \cup [DirectiveNames -> HandlerKinds]

\* the values (Math.random() + '').slice(2) takes, call after call
RandomStreams == {[i \in 1..(MaxNodes + 1) |-> ToString(i)], [i \in 1..(MaxNodes + 1) |-> ""]}

GenAttrs ==
    { [key |-> <<"if">>, value |-> "c"],
      [key |-> <<"for">>, value |-> "l"],
      [key |-> <<":", "id">>, value |-> "u"] }
GenTexts == {<<"h", "i">>, <<"{", "x", "}">>, <<"a", "{", "x", "}">>}

\* attribute lists of a tag: no attribute twice
GenAttrLists ==
    {a \in SeqsUpTo(GenAttrs, MaxAttrs) : \A i, j \in DOMAIN a : i # j => a[i] # a[j]}

NodeLabels ==
    {H("#text", <<>>, t) : t \in GenTexts} \cup {H("div", parseProps(a), <<>>) : a \in GenAttrLists}

RECURSIVE SortedSeq(_)
SortedSeq(S) ==
    IF S = {} THEN <<>>
    ELSE LET m == CHOOSE x \in S : \A y \in S : x <= y
         IN  <<m>> \o SortedSeq(S \ {m})

\* the trees parse can return: node 1 is the root, children in document order
TreesOfSize(n) ==
    LET Parents == {p \in [2..n -> 1..n] : \A i \in 2..n : p[i] < i}
    IN  { [i \in 1..n |-> [labels[i] EXCEPT !.children = SortedSeq({j \in 2..n : p[j] = i})]] :
            labels \in [1..n -> NodeLabels],
            p \in {q \in Parents : TRUE} }

IsTree(ns) == \A i \in DOMAIN ns : ns[i].type = "#text" => ns[i].children = <<>>

GenTrees == UNION {{t \in TreesOfSize(n) : IsTree(t)} : n \in 1..MaxNodes}

-----------------------------------------------------------------------------
(* detectStaticNodes                                                       *)

HasProp(props, name) == \E i \in DOMAIN props : KeyStr(props[i].key) = name

StaticEvent(id, v) == [ev |-> "static", node |-> id, name |-> "", value |-> v]

SetStatic(ns, id, v) == [ns EXCEPT ![id].static = <<v>>]

\* line 110: !vn.nodeValue?.search(options.interpolationRegex); !n is true for 0 only
TextIsStatic(nodeValue) == search(nodeValue) = 0

\* lines 109-116; the log holds every write of a static flag, in order.
\* Array.prototype.every stops at the first false, so later children are not visited
\* and the prop keys are not looked at.
RECURSIVE detectStaticNodes(_, _, _)
RECURSIVE everyChildStatic(_, _, _)
everyChildStatic(ns, kids, dirs) ==
    IF kids = <<>> THEN [nodes |-> ns, ret |-> TRUE, log |-> <<>>]
    ELSE LET first == detectStaticNodes(ns, Head(kids), dirs)
         IN  IF ~first.ret THEN first
             ELSE LET others == everyChildStatic(first.nodes, Tail(kids), dirs)
                  IN  [nodes |-> others.nodes, ret |-> others.ret, log |-> first.log \o others.log]

detectStaticNodes(ns, id, dirs) ==
    LET vn == ns[id]
    IN  IF vn.type = "#text"
        THEN LET v == TextIsStatic(vn.nodeValue)
             IN  [nodes |-> SetStatic(ns, id, v), ret |-> v, log |-> <<StaticEvent(id, v)>>]
        ELSE IF ~(\A d \in DOMAIN dirs : ~HasProp(vn.props, d))
        THEN [nodes |-> SetStatic(ns, id, FALSE), ret |-> FALSE, log |-> <<StaticEvent(id, FALSE)>>]
        ELSE LET kids == everyChildStatic(ns, vn.children, dirs)
                 v == /\ kids.ret
                      /\ \A i \in DOMAIN vn.props : dataBindingExec(vn.props[i].key) = <<>>
             IN  [nodes |-> SetStatic(kids.nodes, id, v), ret |-> v,
                  log |-> Append(kids.log, StaticEvent(id, v))]

InitGen ==
    /\ pc = "ready"
    /\ nodes \in GenTrees
    /\ root = 1
    /\ options \in {[directives |-> d] : d \in DirectiveConfigs}
    /\ out = <<>>
    /\ ParseIdle /\ EvalIdle

\* detectStaticNodes(vn, options) on the root of the tree
Analyze ==
    /\ pc = "ready"
    /\ LET r == detectStaticNodes(nodes, root, options.directives)
       IN  /\ nodes' = r.nodes
           /\ out' = [ret |-> r.ret, log |-> r.log]
    /\ pc' = "analyzed"
    /\ UNCHANGED <<root, options, parseVars, evalVars>>

SpecAnalyze == InitGen /\ [][Analyze]_vars

-----------------------------------------------------------------------------
(* Properties of detectStaticNodes.                                        *)

HasMarker(s) == \E i \in DOMAIN s : IsMarkerAt(s, i)

\* C2: a text node the analyzer has classified is static when its text holds no
\* interpolation marker, and not static when it holds one, at any position
C2_TextStaticIffNoMarker ==
    pc = "analyzed" =>
        \A id \in DOMAIN nodes :
            nodes[id].type = "#text" /\ nodes[id].static # Unset =>
                nodes[id].static = <<~HasMarker(nodes[id].nodeValue)>>

RECURSIVE Subtree(_, _)
Subtree(ns, id) ==
    {id} \cup UNION {Subtree(ns, ns[id].children[k]) : k \in DOMAIN ns[id].children}

\* a node that shows by itself that its output may change between renders
HasDynamicSignal(vn, dirs) ==
    \/ vn.type = "#text" /\ HasMarker(vn.nodeValue)
    \/ vn.type # "#text" /\ \E i \in DOMAIN vn.props :
          \/ KeyStr(vn.props[i].key) \in DOMAIN dirs
          \/ dataBindingExec(vn.props[i].key) # <<>>

\* C3: the analyzer is conservative: a node left with static = true has no
\* directive prop, no data-bound prop and no interpolated text in its subtree
C3_StaticIsConservative ==
    pc = "analyzed" =>
        \A id \in DOMAIN nodes :
            nodes[id].static = <<TRUE>> =>
                \A d \in Subtree(nodes, id) : ~HasDynamicSignal(nodes[d], options.directives)

-----------------------------------------------------------------------------
(* parseInterpolations, compileProps, compileNode                          *)

\* line 119: every marker {e} becomes ' + e + '
RECURSIVE parseInterpolations(_)
parseInterpolations(src) ==
    IF src = <<>> THEN ""
    ELSE IF IsMarkerAt(src, 1)
    THEN "' + " \o src[2] \o " + '" \o parseInterpolations(SubSeq(src, 4, Len(src)))
    ELSE Head(src) \o parseInterpolations(Tail(src))

\* lines 124-128: some prop is named key or is bound to key
HasKey(props) ==
    \E i \in DOMAIN props :
        \/ KeyStr(props[i].key) = "key"
        \/ dataBindingExec(props[i].key) = <<"key">>

\* lines 131-137: one entry of the object literal
PropEntry(pair) ==
    LET dataBinding == dataBindingExec(pair.key)
    IN  IF dataBinding # <<>>
        THEN [key |-> dataBinding[1], value |-> pair.value.v, quoted |-> FALSE]
        ELSE [key |-> KeyStr(pair.key), value |-> pair.value.v, quoted |-> TRUE]

EntryCode(e) ==
    IF e.quoted THEN e.key \o ": '" \o e.value \o "'" ELSE e.key \o ": " \o e.value

PropsLiteral(props) ==
    LET entries == [i \in DOMAIN props |-> PropEntry(props[i])]
    IN  [entries |-> entries,
         code |-> "{" \o Join([i \in DOMAIN entries |-> EntryCode(entries[i])], ",") \o "}"]

\* a slip: the key is injected whenever no prop is literally named key
compilePropsLiteralKeyOnly(props, digits) ==
    LET injects == ~HasProp(props, "key")
        own == IF injects THEN SetProp(props, <<"key">>, StrVal("y-key-" \o digits)) ELSE props
        lit == PropsLiteral(own)
    IN  [argument |-> props, drew |-> injects, entries |-> lit.entries, code |-> lit.code]

\* lines 122-138.  digits is what (Math.random() + '').slice(2) yields if it is
\* called; argument is the caller's props object after the call; drew tells
\* whether Math.random was called.
compileProps(props, digits) ==
    LET own == IF HasKey(props) THEN props
               ELSE SetProp(props, <<"key">>, StrVal("y-key-" \o digits))
        lit == PropsLiteral(own)
    IN  [argument |-> props, drew |-> ~HasKey(props), entries |-> lit.entries, code |-> lit.code]

\* a slip: the last directive prop is taken instead of the first
LastDirective(props, dirs) ==
    LET D == {i \in DOMAIN props : KeyStr(props[i].key) \in DOMAIN dirs}
    IN  IF D = {} THEN 0 ELSE CHOOSE i \in D : \A j \in D : j <= i

\* line 145: the first prop, in the order for-in takes them, that is a directive
FirstDirective(props, dirs) ==
    LET D == {i \in DOMAIN props : KeyStr(props[i].key) \in DOMAIN dirs}
    IN  IF D = {} THEN 0 ELSE CHOOSE i \in D : \A j \in D : i <= j

\* line 147: delete vn.props[prop]
DeleteProp(props, i) == SubSeq(props, 1, i - 1) \o SubSeq(props, i + 1, Len(props))

EnterEvent(id) == [ev |-> "enter", node |-> id, name |-> "", value |-> FALSE]
DirectiveEvent(id, d) == [ev |-> "directive", node |-> id, name |-> d, value |-> FALSE]
EmitEvent(id) == [ev |-> "emit", node |-> id, name |-> "", value |-> FALSE]

\* lines 140-151.  rnd: the values Math.random yields; k: how many were drawn.
\* The log holds, in order: each entry into compileNode for an element, each write
\* of a static flag, each call of a directive handler, each h(...) emitted.
RECURSIVE compileNode(_, _, _, _, _)
RECURSIVE compileChildren(_, _, _, _, _)
compileChildren(ns, kids, dirs, rnd, k) ==
    IF kids = <<>> THEN [nodes |-> ns, codes |-> <<>>, log |-> <<>>, k |-> k]
    ELSE LET first == compileNode(ns, Head(kids), dirs, rnd, k)
             others == compileChildren(first.nodes, Tail(kids), dirs, rnd, first.k)
         IN  [nodes |-> others.nodes, codes |-> <<first.code>> \o others.codes,
              log |-> first.log \o others.log, k |-> others.k]

compileNode(ns, id, dirs, rnd, k) ==
    IF ns[id].type = "#text"
    THEN [nodes |-> ns, log |-> <<>>, k |-> k,
          code |-> "h('#text', null, '" \o parseInterpolations(ns[id].nodeValue) \o "')"]
    ELSE
      LET analysed == detectStaticNodes(ns, id, dirs)
          vn == analysed.nodes[id]
          i == FirstDirective(vn.props, dirs)
          before == <<EnterEvent(id)>> \o analysed.log
      IN  IF i # 0
          THEN LET prop == KeyStr(vn.props[i].key)
                   value == vn.props[i].value.v
                   deleted == [analysed.nodes EXCEPT ![id].props = DeleteProp(@, i)]
                   called == Append(before, DirectiveEvent(id, prop))
               IN  IF dirs[prop] = "wrap"
                   THEN LET rest == compileNode(deleted, id, dirs, rnd, k)
                        IN  [nodes |-> rest.nodes, log |-> called \o rest.log, k |-> rest.k,
                             code |-> "(" \o value \o ") ? (" \o rest.code \o ") : null"]
                   ELSE [nodes |-> deleted, log |-> called, k |-> k, code |-> "null"]
          ELSE LET props == compileProps(vn.props, rnd[k + 1])
                   k1 == IF props.drew THEN k + 1 ELSE k
                   withProps == [analysed.nodes EXCEPT ![id].props = props.argument]
                   kids == compileChildren(withProps, vn.children, dirs, rnd, k1)
               IN  [nodes |-> kids.nodes, log |-> before \o kids.log \o <<EmitEvent(id)>>,
                    k |-> kids.k,
                    code |-> "h('" \o vn.type \o "'," \o props.code \o ",["
                               \o Join(kids.codes, ",") \o "])"]

\* compileNode(vn, options) on the root of the tree
Compile ==
    /\ pc = "ready"
    /\ \E rnd \in RandomStreams :
         LET r == compileNode(nodes, root, options.directives, rnd, 0)
         IN  /\ nodes' = r.nodes
             /\ out' = [code |-> r.code, log |-> r.log, input |-> nodes]
    /\ pc' = "compiled"
    /\ UNCHANGED <<root, options, parseVars, evalVars>>

SpecCompile == InitGen /\ [][Compile]_vars

\* the attributes compileProps is tried on, and the digits Math.random may give
PropAttrs ==
    { [key |-> <<"key">>, value |-> "k"],
      [key |-> <<":", "key">>, value |-> "uid"],
      [key |-> <<"id">>, value |-> "m"],
      [key |-> <<":", "id">>, value |-> "u"],
      [key |-> <<"hidden">>, value |-> ""] }
RandomDigits == {"", "5", "25"}

InitProps ==
    /\ pc = "ready"
    /\ nodes \in {<<H("div", parseProps(a), <<>>)>> : a \in SeqsUpTo(PropAttrs, MaxProps)}
    /\ root = 1
    /\ options = [directives |-> <<>>]
    /\ out = <<>>
    /\ ParseIdle /\ EvalIdle

\* compileProps(vn.props, options) on the props of the node
CompilePropsCall ==
    /\ pc = "ready"
    /\ \E digits \in RandomDigits :
         LET r == compileProps(nodes[root].props, digits)
         IN  /\ nodes' = [nodes EXCEPT ![root].props = r.argument]
             /\ out' = [code |-> r.code, entries |-> r.entries, drew |-> r.drew,
                        digits |-> digits, input |-> nodes[root].props]
    /\ pc' = "compiled"
    /\ UNCHANGED <<root, options, parseVars, evalVars>>

SpecProps == InitProps /\ [][CompilePropsCall]_vars

-----------------------------------------------------------------------------
(* Properties of compileNode.                                              *)

Elements(ns) == {n \in DOMAIN ns : ns[n].type # "#text"}

EventsOf(kind, n) ==
    LET Is(e) == e.ev = kind /\ e.node = n
    IN  SelectSeq(out.log, Is)

\* the names of the handlers called for node n, in the order of the calls
DirectiveCalls(n) == [i \in DOMAIN EventsOf("directive", n) |-> EventsOf("directive", n)[i].name]

\* the registered directive props node n had when compileNode was called, in order
DirProps(n) ==
    LET IsDir(pair) == KeyStr(pair.key) \in DOMAIN options.directives
        dirs == SelectSeq(out.input[n].props, IsDir)
    IN  [i \in DOMAIN dirs |-> KeyStr(dirs[i].key)]

Entered(n) == EventsOf("enter", n) # <<>>

\* C6 as stated: for an element with several directive props exactly one
\* handler, that of the first, is called, whatever it does with its continuation
C6_OnlyFirstDirectiveEver ==
    pc = "compiled" =>
        \A n \in Elements(out.input) :
            Entered(n) /\ Len(DirProps(n)) >= 2 => DirectiveCalls(n) = <<DirProps(n)[1]>>

\* how many handlers get called: each one after the first only if the one
\* before it calls its continuation
RECURSIVE Applied(_)
Applied(dirs) ==
    IF dirs = <<>> THEN 0
    ELSE IF options.directives[Head(dirs)] = "wrap" THEN 1 + Applied(Tail(dirs))
    ELSE 1

\* no two handler calls for node n without an entry into compileNode for n between
OneCallPerEntry(n) ==
    \A i, j \in DOMAIN out.log :
        /\ i < j
        /\ out.log[i].ev = "directive" /\ out.log[i].node = n
        /\ out.log[j].ev = "directive" /\ out.log[j].node = n
        => \E m \in (i + 1)..(j - 1) : out.log[m].ev = "enter" /\ out.log[m].node = n

\* C6 amended: each entry into compileNode for an element calls the handler of
\* the first directive prop the node has at that moment, and no other; the
\* handlers of the further directive props are called in prop order, each if and
\* only if the handler before it calls its continuation
C6_DirectivesChainThroughContinuation ==
    pc = "compiled" =>
        \A n \in Elements(out.input) :
            /\ Entered(n) =>
                 /\ DirectiveCalls(n) = SubSeq(DirProps(n), 1, Applied(DirProps(n)))
                 /\ OneCallPerEntry(n)
                 /\ Len(EventsOf("enter", n)) =
                      1 + Cardinality({i \in DOMAIN DirectiveCalls(n) :
                                          options.directives[DirectiveCalls(n)[i]] = "wrap"})
            /\ ~Entered(n) => DirectiveCalls(n) = <<>>

\* C6 witness: an element with two directive props was compiled, the first
\* handler called its continuation, and both handlers were called
C6_SecondHandlerCalled ==
    /\ pc = "compiled"
    /\ Len(DirProps(root)) = 2
    /\ options.directives[DirProps(root)[1]] = "wrap"
    /\ DirectiveCalls(root) = DirProps(root)

\* C10: in one run of compileNode the static flag of every element it generates
\* code for is written exactly once, and that right before the code of the node
\* is generated (right after the entry into compileNode for it)
C10_StaticComputedOnce ==
    pc = "compiled" =>
        \A n \in Elements(out.input) :
            Entered(n) =>
                /\ Len(EventsOf("static", n)) = 1
                /\ \A i \in DOMAIN out.log :
                     out.log[i].ev = "static" /\ out.log[i].node = n =>
                        \E m \in 1..(i - 1) :
                            /\ out.log[m].ev = "enter" /\ out.log[m].node = n
                            /\ \A q \in (m + 1)..(i - 1) : out.log[q].ev = "static"

-----------------------------------------------------------------------------
(* Properties of compileProps.                                             *)

IsBound(k) == Len(k) >= 2 /\ k[1] = ":"
EmittedKey(k) == IF IsBound(k) THEN Concat(Tail(k)) ELSE Concat(k)

\* the entry a synthetic key leaves at the end of the literal
Injected ==
    /\ Len(out.entries) = Len(out.input) + 1
    /\ out.entries[Len(out.entries)] =
         [key |-> "key", value |-> "y-key-" \o out.digits, quoted |-> TRUE]

\* C8: the literal compileProps emits has an entry with the key 'key'; a synthetic
\* one is injected exactly when no prop is named key and none is bound to key;
\* every prop of the node is emitted as it is (a bound one under its captured name
\* with its value as code, any other under its name with its value quoted), and
\* the props of the node are left as they were
C8_KeyEntryAlways ==
    pc = "compiled" =>
        /\ \E i \in DOMAIN out.entries : out.entries[i].key = "key"
        /\ Injected <=> ~(\E i \in DOMAIN out.input : EmittedKey(out.input[i].key) = "key")
        /\ ~Injected => Len(out.entries) = Len(out.input)
        /\ \A i \in DOMAIN out.input :
              out.entries[i] = [key |-> EmittedKey(out.input[i].key),
                                value |-> out.input[i].value.v,
                                quoted |-> ~IsBound(out.input[i].key)]
        /\ nodes[root].props = out.input

\* C8 witness: a node with a bound prop and no key got a synthetic key
C8_KeyInjected ==
    /\ pc = "compiled"
    /\ Injected
    /\ \E i \in DOMAIN out.input : IsBound(out.input[i].key)

\* C8 second case reached: a node bound to key got none
C8_BoundKeyKept ==
    /\ pc = "compiled"
    /\ ~Injected
    /\ ~HasProp(out.input, "key")

-----------------------------------------------------------------------------
(* saferEval and the render function compile returns                       *)

Undefined == <<>>

\* the node-construction functions callers have, and the objects they call
\* render functions on: one with data only, one that has an h of its own
NodeConstructors == {"hA", "hB"}
Contexts ==
    << [proto |-> 0, own |-> ("x" :> "1")],
       [proto |-> 0, own |-> ("x" :> "2" @@ "h" :> "hThis")] >>

\* the code handed to saferEval, as the h(...) calls it makes when run: the types
\* of the nodes built, children before parents
Codes == {<<"#text">>, <<"#text", "span", "div">>}

\* target[key] on a plain object: own properties, then the prototype chain
RECURSIVE Lookup(_, _, _)
Lookup(hp, obj, key) ==
    IF obj = 0 THEN Undefined
    ELSE IF key \in DOMAIN hp[obj].own THEN <<hp[obj].own[key]>>
    ELSE Lookup(hp, hp[obj].proto, key)

\* lines 43-47: has is always true, so inside with(sandbox) every identifier is read
\* through get; Symbol.unscopables reads as undefined; a function comes bound
\* to the target, which leaves what it is unchanged
ProxyGet(hp, target, key) ==
    IF key = "Symbol.unscopables" THEN Undefined ELSE Lookup(hp, target, key)

\* func(proxy): the code runs with its identifiers read through the proxy;
\* calling an h that is undefined throws
RunCode(code, hp, target) ==
    LET h == ProxyGet(hp, target, "h")
    IN  IF h = Undefined
        THEN [threw |-> TRUE, tree |-> <<>>]
        ELSE [threw |-> FALSE, tree |-> [i \in DOMAIN code |-> [type |-> code[i], by |-> h[1]]]]

ProxiesBuilt == Cardinality({i \in DOMAIN calls : calls[i].constructed})

\* a slip: the proxy is built but not put into sandboxProxies (line 53 missing)
evalWrapperNoSet(e, sandbox, hp) ==
    LET hit == sandbox \in DOMAIN sandboxProxies
        proxy == IF hit THEN sandboxProxies[sandbox] ELSE ProxiesBuilt + 1
    IN  [sandboxProxies |-> sandboxProxies,
         call |-> [evaluator |-> e, sandbox |-> sandbox, proxy |-> proxy,
                   constructed |-> ~hit,
                   result |-> RunCode(evaluators[e].code, hp, sandbox)]]

\* lines 49-56: evalWrapper(sandbox) of evaluator e; a proxy is an object, so
\* !proxy holds exactly when the WeakMap has no entry for the sandbox
evalWrapper(e, sandbox, hp) ==
    LET hit == sandbox \in DOMAIN sandboxProxies
        proxy == IF hit THEN sandboxProxies[sandbox] ELSE ProxiesBuilt + 1
    IN  [sandboxProxies |-> IF hit THEN sandboxProxies ELSE sandboxProxies @@ (sandbox :> proxy),
         call |-> [evaluator |-> e, sandbox |-> sandbox, proxy |-> proxy,
                   constructed |-> ~hit,
                   result |-> RunCode(evaluators[e].code, hp, sandbox)]]

InitEval ==
    /\ pc = "idle"
    /\ heap = Contexts
    /\ sandboxProxies = <<>>
    /\ evaluators = <<>>
    /\ renders = <<>>
    /\ calls = <<>>
    /\ nodes = <<>>
    /\ ParseIdle /\ GenIdle

\* saferEval(code): one more evalWrapper closure (lines 39-57)
SaferEval ==
    /\ Len(evaluators) < MaxEvaluators
    /\ \E code \in Codes : evaluators' = Append(evaluators, [code |-> code])
    /\ UNCHANGED <<pc, nodes, heap, sandboxProxies, renders, calls, parseVars, genVars>>

\* a call of an evaluator saferEval returned, on an object that exists
EvalWrapperCall ==
    /\ Len(calls) < MaxCalls
    /\ \E e \in DOMAIN evaluators, sandbox \in DOMAIN heap :
         LET r == evalWrapper(e, sandbox, heap)
         IN  /\ sandboxProxies' = r.sandboxProxies
             /\ calls' = Append(calls, r.call @@ [render |-> 0, hArg |-> "", this |-> 0])
    /\ UNCHANGED <<pc, nodes, heap, evaluators, renders, parseVars, genVars>>

\* compile(template, options), lines 160-164: the code generated for the template
\* goes to saferEval; renderTemplate keeps options and innerRender
CompileTemplate ==
    /\ Len(evaluators) < MaxEvaluators
    /\ \E code \in Codes, h \in NodeConstructors :
         /\ evaluators' = Append(evaluators, [code |-> code])
         /\ renders' = Append(renders, [options |-> [h |-> h], innerRender |-> Len(evaluators) + 1])
    /\ UNCHANGED <<pc, nodes, heap, sandboxProxies, calls, parseVars, genVars>>

\* renderTemplate.call(this, h), lines 164-168
RenderTemplate ==
    /\ Len(calls) < MaxCalls
    /\ \E r \in DOMAIN renders, h \in NodeConstructors, this \in DOMAIN Contexts :
         LET scope == [proto |-> this, own |-> ("h" :> renders[r].options.h)]
             hp == Append(heap, scope)
             c == evalWrapper(renders[r].innerRender, Len(hp), hp)
         IN  /\ heap' = hp
             /\ sandboxProxies' = c.sandboxProxies
             /\ calls' = Append(calls, c.call @@ [render |-> r, hArg |-> h, this |-> this])
    /\ UNCHANGED <<pc, nodes, evaluators, renders, parseVars, genVars>>

NextEval == SaferEval \/ EvalWrapperCall \/ CompileTemplate \/ RenderTemplate

SpecEval == InitEval /\ [][NextEval]_vars

-----------------------------------------------------------------------------
(* Properties of saferEval and of the render function.                     *)

\* C4: a render call with node-construction function h runs the code in a scope
\* that inherits from the caller's this and has that h as its h, so that every
\* node of the result is built by it
C4_RenderUsesGivenH ==
    \A i \in DOMAIN calls :
        calls[i].render # 0 =>
            /\ heap[calls[i].sandbox].proto = calls[i].this
            /\ heap[calls[i].sandbox].own["h"] = calls[i].hArg
            /\ ~calls[i].result.threw
            /\ \A k \in DOMAIN calls[i].result.tree :
                  calls[i].result.tree[k].by = calls[i].hArg

\* C7: over all calls of all evaluators, the proxy of a scope object is built at
\* most once, on the first call with that object; every later call with the same
\* object runs against that proxy; different objects never share a proxy
C7_OneProxyPerScope ==
    /\ \A i, j \in DOMAIN calls :
          /\ calls[i].sandbox = calls[j].sandbox <=> calls[i].proxy = calls[j].proxy
          /\ i < j /\ calls[i].sandbox = calls[j].sandbox => ~calls[j].constructed
    /\ \A i \in DOMAIN calls :
          /\ calls[i].constructed <=> ~\E j \in 1..(i - 1) : calls[j].sandbox = calls[i].sandbox
          /\ calls[i].sandbox \in DOMAIN sandboxProxies
          /\ sandboxProxies[calls[i].sandbox] = calls[i].proxy

\* C7 witness: two different evaluators were called with the same scope object,
\* and the second call reused the proxy the first one had built
C7_ProxyReusedAcrossEvaluators ==
    \E i, j \in DOMAIN calls :
        /\ i < j
        /\ calls[i].sandbox = calls[j].sandbox
        /\ calls[i].evaluator # calls[j].evaluator
        /\ calls[i].proxy = calls[j].proxy

=============================================================================
